---- MODULE Spec2Model ----
(***************************************************************************)
(* Model of klippy/extras/high_resolution_filament_sensor.py.              *)
(*                                                                         *)
(* Time is counted in poll intervals (CHECK_RUNOUT_TIMEOUT = 1).  Lengths  *)
(* (sensor position, extruder position) are integers in units of           *)
(* rotation_distance / 4095.  A Python None is the empty tuple and a       *)
(* present optional value v is the one-element tuple <<v>>.  Rates are     *)
(* fractions <<num, den>> with den > 0, compared by cross-multiplication.  *)
(***************************************************************************)
EXTENDS Integers, Sequences, FiniteSets, TLC

VARIABLES
    commanded_moves,            \* self._commanded_moves, newest first
    position,                   \* self.position
    is_printing,                \* self._is_printing
    unhealthy,                  \* self._unhealthy._value
    runout,                     \* self._runout._value
    underextrusion_start_time,  \* self._underextrusion_start_time
    underextruding,             \* self._underextruding._value
    last_epos,                  \* self._last_epos
    status_evaluation_move,     \* self._status_evaluation_move
    magnet_state,               \* self._magnet_state.value
    sensor_connected,           \* self._sensor_connected._value
    filament_present,           \* self._filament_present._value
    absolute_angular_position,  \* self._rotation_helper._absolute_angular_position
    min_event_systime,          \* self.runout_helper.min_event_systime
    sensor_enabled,             \* self.runout_helper.sensor_enabled
    uart,                       \* whether self.uart is configured (else i2c)
    underextrusion_period,      \* config underextrusion_period, in poll intervals
    now,                        \* reactor.monotonic() when the last handler returned
    wake,                       \* waketime returned by the last _sensor_update_event
    crashed,                    \* a handler raised an uncaught exception
    tick,                       \* what the last handler did (observation)
    trig_value,                 \* TriggerOnChange._value of a stand-alone trigger
    trig_base,                  \* the value that trigger was constructed with
    trig_fed,                   \* the values passed to its set(), in order
    trig_calls,                 \* the (old, new) pairs its callback received, in order
    window,                     \* the distance passed to _combine_moves_for_distance
    combined,                   \* what that call returned
    rate_move,                  \* the move passed to _measured_underextrusion_rate
    rate,                       \* what that call returned
    ignore_bits,                \* SensorRotationHelper.ignore_bits of a stand-alone helper
    raw_reading,                \* the (turns, angle) last passed to its update_raw
    rotation_position,          \* its _absolute_angular_position
    previous_reading,           \* the (turns, angle) of the update_raw before that
    previous_position,          \* _absolute_angular_position after that earlier call
    frame,                      \* the reg and the data passed to _decode_read
    decoded,                    \* <<what that call returned>>, None before the call
    uart_pc,                    \* the field (1..4) the serial read of a tick is at, 5 when done
    uart_fields,                \* the four field values of that tick, None until read
    uart_attempts,              \* reg_read transactions issued for each field
    uart_last,                  \* the field and unstuffed response of the last transaction
    uart_connected,             \* the value the tick passed to _sensor_connected.set
    coefficients,               \* non_linear_transform.coefficients
    nle_enabled,                \* non_linear_transform.enabled
    nle_response,               \* the last ENABLE_NONLINEAR_EXTRUSION: its parameters, its
                                \* outcome, and the enabled flag before it
    poll_input                  \* what the toolhead reported to the last observed poll tick

vars == <<commanded_moves, position, is_printing, unhealthy, runout,
          underextrusion_start_time, underextruding, last_epos,
          status_evaluation_move, magnet_state, sensor_connected,
          filament_present, absolute_angular_position, min_event_systime,
          sensor_enabled, uart, underextrusion_period, now, wake, crashed, tick,
          trig_value, trig_base, trig_fed, trig_calls,
          window, combined, rate_move, rate, ignore_bits, raw_reading,
          rotation_position, previous_reading, previous_position, frame, decoded, uart_pc, uart_fields, uart_attempts,
          uart_last, uart_connected, coefficients, nle_enabled, nle_response,
          poll_input>>

sensorVars == <<commanded_moves, position, is_printing, unhealthy, runout,
                underextrusion_start_time, underextruding, last_epos,
                status_evaluation_move, magnet_state, sensor_connected,
                filament_present, absolute_angular_position, min_event_systime,
                sensor_enabled, uart, underextrusion_period, now, wake, crashed,
                tick>>

trigVars == <<trig_value, trig_base, trig_fed, trig_calls>>

combineVars == <<window, combined>>

rateVars == <<rate_move, rate>>

rotationVars == <<ignore_bits, raw_reading, rotation_position, previous_reading,
                  previous_position>>

frameVars == <<frame, decoded>>

uartVars == <<uart_pc, uart_fields, uart_attempts, uart_last, uart_connected>>

nleVars == <<coefficients, nle_enabled, nle_response>>

inputVars == <<poll_input>>

\* the variables of the stand-alone components other than the trigger
sideVars == <<combineVars, rateVars, rotationVars, frameVars, uartVars, nleVars>>

None == <<>>

Some(v) == <<v>>

Max(a, b) == IF a >= b THEN a ELSE b

Min(a, b) == IF a <= b THEN a ELSE b

----------------------------------------------------------------------------
(* Bounds of the model *)

\* the poll timer is not dispatched at or after this time
MaxTime == 3

\* the host changes the commanded extruder position at most this many times per print
MaxOpenings == 2

\* poll ticks of the ledger-filling specification
MaxLedgerTicks == 105

\* set() calls fed to the stand-alone trigger
MaxCalls == 5

\* poll ticks that build the ledger before it is combined
MaxCombineTicks == 3

\* largest measured distance of the moves whose rate is computed
MaxMeasured == 15

\* full-turn counts read by the stand-alone rotation helper: -MaxTurns..MaxTurns
MaxTurns == 2

\* largest ignore_bits the stand-alone rotation helper is built with
MaxIgnoreBits == 11

----------------------------------------------------------------------------
(* Program constants and configuration *)

CHECK_RUNOUT_TIMEOUT == 1

NOT_DETECTED == 1

TOO_WEAK == 2

TOO_STRONG == 3

DETECTED == 4

\* MagnetState(0xff): never read / block-read disconnected sentinel
MAGNET_UNSET == 255

\* len(self._commanded_moves) is trimmed to this
LEDGER_CAPACITY == 100

\* SensorRotationHelper(12, ...)
resolution == 12

\* config hysteresis_bits (default)
hysteresis_bits == 3

\* config rotation_distance, chosen so that one masked count is one length unit
rotation_distance == 4095

\* config invert_direction (default)
invert_direction == FALSE

\* config underextrusion_max_rate, as the fraction 1/2
underextrusion_max_rate == <<1, 2>>

\* config move_evaluation_distance, in length units
move_evaluation_distance == 8

\* runout_helper.event_delay, in poll intervals
event_delay == 1

----------------------------------------------------------------------------
(* Inputs the environment supplies *)

\* config underextrusion_period values (minval 0), in poll intervals
PeriodValues == {0, 1}

\* toolhead.get_position()[3] and extruder.find_past_position()
EposValues == {0, 8}

\* raw (full_turns, angle) register pairs
RawReadings == {<<0, 0>>, <<0, 8>>}

\* magnet-state register values of a connected sensor
MagnetValues == {TOO_WEAK, DETECTED}

\* filament-presence register values
PresenceValues == {0, 1}

\* commanded extruder positions while the ledger to combine is built
CombineEpos == {0, 1, 2, 3}

\* distances passed to _combine_moves_for_distance
WindowValues == {0, 2, 3}

\* full_turns register values
TurnValues == (0 - MaxTurns)..MaxTurns

\* angle register values (12 bits)
AngleValues == {0, 1, 7, 8, 15, 2047, 2048, 4088, 4095}

\* how long _runout_event_handler (pause and recovery script) takes
ScriptTimes == {0, 1}

\* outcomes of one tick's register read: over uart every field got a value ("ok")
\* or some field got none ("nofield"); over i2c the block read returned 10 bytes
\* ("ok"), of which the first may be the 0xff sentinel ("sentinel"), another
\* number of bytes ("badlen"), or raised and was caught by i2c_read_reg, which
\* then returns None ("exception")
FailedRead(kind) ==
    [kind |-> kind, magnet |-> MAGNET_UNSET, presence |-> 0, raw |-> <<0, 0>>]

\* a read that returned all four values
GoodRead(magnet, presence, raw) ==
    [kind |-> "ok", magnet |-> magnet, presence |-> presence, raw |-> raw]

\* one tick's register read
Readings(u) ==
    {GoodRead(DETECTED, 1, raw) : raw \in RawReadings}
      \cup {GoodRead(DETECTED, 0, <<0, 0>>), GoodRead(TOO_WEAK, 1, <<0, 0>>)}
      \cup (IF u THEN {FailedRead("nofield")}
                 ELSE {FailedRead("badlen"), FailedRead("exception"),
                       FailedRead("sentinel")})

----------------------------------------------------------------------------
(* TriggerOnChange *)

\* a trigger that calls back on every set()
TriggerFiresAlways(old, value) == TRUE

\* TriggerOnChange.set: the callback runs iff `value is not self._value`
TriggerFires(old, value) == value # old

\* TriggerOnChange.set: the value stored when set() returns
TriggerSet(old, value) == value

\* the callbacks one set() call makes, as a set of <<name, old, new>>
Fired(name, old, value) ==
    IF TriggerFires(old, value) THEN {<<name, old, value>>} ELSE {}

\* callbacks that respond on the console whatever the old value was
ChangedMessageAlways(name, old, new) ==
    IF name = "sensor_connected"
    THEN Some(IF new = Some(TRUE) THEN "Reconnected"
                                  ELSE "No longer connected or data cannot be read")
    ELSE Some(IF new = Some(TRUE) THEN "Filament present" ELSE "Filament not present")

\* _sensor_connected_changed and _filament_present_changed: the console response
\* of the callback, None when it returns after logging only
ChangedMessage(name, old, new) ==
    IF old = None
    THEN None
    ELSE IF name = "sensor_connected"
    THEN Some(IF new = Some(TRUE) THEN "Reconnected"
                                  ELSE "No longer connected or data cannot be read")
    ELSE Some(IF new = Some(TRUE) THEN "Filament present" ELSE "Filament not present")

\* the console responses of the sensor-connected and filament-present callbacks
\* among the callbacks a handler made, as a set of <<name, message>>
Console(fired) ==
    {<<f[1], ChangedMessage(f[1], f[2], f[3])[1]>> :
        f \in {g \in fired : /\ g[1] \in {"sensor_connected", "filament_present"}
                             /\ ChangedMessage(g[1], g[2], g[3]) # None}}

----------------------------------------------------------------------------
(* SensorEvent and CommandedMove *)

SensorEvent(eventtime, pos, distance, epos) ==
    [eventtime |-> eventtime, position |-> pos, distance |-> distance, epos |-> epos]

CommandedMove(eventtime, pos, lepos, epos) ==
    [eventtime |-> eventtime, pos |-> pos, last_epos |-> lepos, epos |-> epos,
     distance |-> epos - lepos, ended |-> FALSE,
     first_event |-> None, last_event |-> None,
     first_motion_event |-> None, last_motion_event |-> None]

\* CommandedMove.add_sensor_event with capture = False
AddSensorEvent(move, event) ==
    [move EXCEPT
        !.first_event = IF @ = None THEN Some(event) ELSE @,
        !.first_motion_event =
            IF event.distance # 0 /\ @ = None THEN Some(event) ELSE @,
        !.last_motion_event = IF event.distance # 0 THEN Some(event) ELSE @,
        !.last_event = Some(event)]

\* CommandedMove.expected_distance: None without a last event
ExpectedDistance(move) ==
    IF move.last_event # None
    THEN Some(move.last_event[1].epos - move.last_epos)
    ELSE None

\* CommandedMove.measured_distance
MeasuredDistance(move) ==
    IF move.last_event # None
    THEN move.last_event[1].position - move.first_event[1].position
    ELSE 0

\* CommandedMove.extrusion_rate as a fraction with a positive denominator
ExtrusionRate(move) ==
    LET d == ExpectedDistance(move)
    IN  IF d = None \/ d = Some(0)
        THEN <<0, 1>>
        ELSE IF d[1] > 0
             THEN <<MeasuredDistance(move), d[1]>>
             ELSE <<0 - MeasuredDistance(move), 0 - d[1]>>

\* a > b for fractions with positive denominators
RateGreater(a, b) == a[1] * b[2] > b[1] * a[2]

\* a rate that is not clamped
MeasuredUnderextrusionRateUnclamped(optmove) ==
    IF optmove = None
    THEN <<0, 1>>
    ELSE LET r == ExtrusionRate(optmove[1])
         IN  <<r[2] - r[1], r[2]>>

\* min(1, max(-1, 1. - move.extrusion_rate)) if move else 0.0
MeasuredUnderextrusionRate(optmove) ==
    IF optmove = None
    THEN <<0, 1>>
    ELSE LET r == ExtrusionRate(optmove[1])
             u == <<r[2] - r[1], r[2]>>
         IN  IF RateGreater(u, <<1, 1>>) THEN <<1, 1>>
             ELSE IF RateGreater(<<-1, 1>>, u) THEN <<-1, 1>>
             ELSE u

\* Python's `a or b` on two optional objects
OrElse(a, b) == IF a # None THEN a ELSE b

\* a combine that takes the last event from the older side first
CombineMovesOlderLast(newer, older) ==
    [CommandedMove(older.eventtime, older.pos, older.last_epos, newer.epos) EXCEPT
        !.ended = newer.ended,
        !.first_event = OrElse(older.first_event, newer.first_event),
        !.first_motion_event = OrElse(older.first_motion_event, newer.first_motion_event),
        !.last_motion_event = OrElse(newer.last_motion_event, older.last_motion_event),
        !.last_event = OrElse(older.last_event, newer.last_event)]

\* _combine_moves(newer, older)
CombineMoves(newer, older) ==
    [CommandedMove(older.eventtime, older.pos, older.last_epos, newer.epos) EXCEPT
        !.ended = newer.ended,
        !.first_event = OrElse(older.first_event, newer.first_event),
        !.first_motion_event = OrElse(older.first_motion_event, newer.first_motion_event),
        !.last_motion_event = OrElse(newer.last_motion_event, older.last_motion_event),
        !.last_event = OrElse(newer.last_event, older.last_event)]

\* a stop test that wants more than the distance
StopFnStrict(move, distance) ==
    LET d == ExpectedDistance(move)
    IN  d # None /\ d[1] > distance

\* _stop_fn of _combine_moves_for_distance
StopFn(move, distance) ==
    LET d == ExpectedDistance(move)
    IN  d # None /\ d[1] >= distance

\* the loop of _combine_all_commanded_moves once `move` is set
RECURSIVE CombineLoop(_, _, _)
CombineLoop(move, rest, distance) ==
    IF StopFn(move, distance) \/ rest = <<>>
    THEN move
    ELSE CombineLoop(CombineMoves(move, Head(rest)), Tail(rest), distance)

\* _combine_moves_for_distance(distance) over a ledger
CombineMovesForDistance(moves, distance) ==
    IF moves = <<>>
    THEN None
    ELSE Some(CombineLoop(Head(moves), Tail(moves), distance))

\* expected distances (last event's extruder estimate - starting position) of the
\* moves whose rate is computed
ExpectedValues == {-10, 0, 4, 10}

\* their measured distances (last event position - first event position)
MeasuredValues == -5..MaxMeasured

\* a move that started at extruder position 0 and sensor position 0, with a first
\* event there and a last event at sensor position m and extruder estimate e
MoveWith(e, m) ==
    AddSensorEvent(AddSensorEvent(CommandedMove(0, 0, 0, e), SensorEvent(0, 0, 0, 0)),
                   SensorEvent(1, m, m, e))

\* the moves passed to _measured_underextrusion_rate: none, one without events,
\* one with events
RateMoves ==
    {None, Some(CommandedMove(0, 0, 0, 10))}
      \cup {Some(MoveWith(e, m)) : e \in ExpectedValues, m \in MeasuredValues}

----------------------------------------------------------------------------
(* SensorRotationHelper *)

\* self.angle_max_value = (1 << resolution) - 1
AngleMaxValue == 2 ^ resolution - 1

\* an update that counts the full turns backwards
UpdateRawTurnsDown(turns, angle) == angle - turns * AngleMaxValue

\* SensorRotationHelper.update_raw
UpdateRaw(turns, angle) == turns * AngleMaxValue + angle

\* raw & ~mask with mask = (1 << bits) - 1, on Python's unbounded two's-complement
\* integers: the low bits are cleared, also of a negative value
MaskedWith(raw, bits) == raw - (raw % (2 ^ bits))

\* self._absolute_angular_position & ~self.mask
MaskedPosition(raw) == MaskedWith(raw, hysteresis_bits)

\* SensorRotationHelper.absolute_angular_position, in degrees, as a fraction
AbsoluteAngularPosition(raw, bits) == <<MaskedWith(raw, bits) * 360, AngleMaxValue>>

\* new_position of _update_state_from_sensor:
\* rotation_distance * (absolute_angular_position() * inv) / 360.
NewPosition(raw) ==
    (rotation_distance * MaskedPosition(raw) * (IF invert_direction THEN -1 ELSE 1))
        \div AngleMaxValue

----------------------------------------------------------------------------
(* SensorUART: the serial frame protocol *)

\* SensorRegister
REG_MAGNET_STATE == 33

REG_FILAMENT_PRESENCE == 34

REG_FULL_TURNS == 35

REG_ANGLE == 36

\* the frame and broadcast markers _decode_read compares bytes 0 and 1 with
FRAME_MARKER == 5

BROADCAST_MARKER == 255

\* x ^ 0x07 for a byte x
Xor7(x) == x - (x % 8) + (7 - (x % 8))

\* one pass of the inner loop of _calc_crc8 for the lowest bit of b
Crc8Step(crc, b) ==
    IF (crc \div 128) # (b % 2) THEN Xor7((crc * 2) % 256) ELSE (crc * 2) % 256

\* the inner loop of _calc_crc8: the bits of byte b from bit i on, lowest first
\* (each value is computed before the next pass is entered)
RECURSIVE Crc8Byte(_, _, _)
Crc8Byte(crc, b, i) ==
    IF i = 8
    THEN crc
    ELSE LET next == Crc8Step(crc, b)
         IN  IF next >= 0 THEN Crc8Byte(next, b \div 2, i + 1) ELSE next

\* the outer loop of _calc_crc8, from CRC value crc on
RECURSIVE Crc8From(_, _)
Crc8From(crc, bytes) ==
    IF bytes = <<>>
    THEN crc
    ELSE LET next == Crc8Byte(crc, Head(bytes), 0)
         IN  IF next >= 0 THEN Crc8From(next, Tail(bytes)) ELSE next

\* _calc_crc8(data)
Crc8(bytes) == Crc8From(0, bytes)

\* bit k (0 = lowest) of the integer that _remove_serial_bits assembles from data
DataBit(data, k) == (data[(k \div 8) + 1] \div (2 ^ (k % 8))) % 2

\* (mval >> shift) & 0xff
RECURSIVE ByteAt(_, _, _)
ByteAt(data, shift, j) ==
    IF j = 8
    THEN 0
    ELSE (IF shift + j < Len(data) * 8 THEN DataBit(data, shift + j) * (2 ^ j) ELSE 0)
           + ByteAt(data, shift, j + 1)

\* _remove_serial_bits(data)
RemoveSerialBits(data) ==
    [i \in 1..((Len(data) * 8) \div 10) |-> ByteAt(data, (i - 1) * 10 + 1, 0)]

\* a decode that does not compare the echoed register
DecodeReadAnyRegister(reg, data) ==
    LET f == RemoveSerialBits(data)
    IN  IF Len(f) < 5 THEN None
        ELSE IF f[Len(f)] # Crc8(SubSeq(f, 1, Len(f) - 1)) THEN None
        ELSE IF f[1] # FRAME_MARKER /\ f[2] # BROADCAST_MARKER THEN None
        ELSE Some(SubSeq(f, 4, Len(f) - 1))

\* a decode that rejects a frame when either marker is wrong
DecodeReadEitherMarker(reg, data) ==
    LET f == RemoveSerialBits(data)
    IN  IF Len(f) < 5 THEN None
        ELSE IF f[Len(f)] # Crc8(SubSeq(f, 1, Len(f) - 1)) THEN None
        ELSE IF f[1] # FRAME_MARKER \/ f[2] # BROADCAST_MARKER THEN None
        ELSE IF f[3] # reg THEN None
        ELSE Some(SubSeq(f, 4, Len(f) - 1))

\* _decode_read(reg, data)
DecodeRead(reg, data) ==
    LET f == RemoveSerialBits(data)
    IN  IF Len(f) < 5 THEN None
        ELSE IF f[Len(f)] # Crc8(SubSeq(f, 1, Len(f) - 1)) THEN None
        ELSE IF f[1] # FRAME_MARKER /\ f[2] # BROADCAST_MARKER THEN None
        ELSE IF f[3] # reg THEN None
        ELSE Some(SubSeq(f, 4, Len(f) - 1))

\* the bits the physical layer delivers for a byte sequence: per byte a start bit
\* 0, the 8 data bits lowest first, a stop bit 1
WireBit(bytes, k) ==
    IF k >= Len(bytes) * 10 THEN 1
    ELSE IF k % 10 = 0 THEN 0
    ELSE IF k % 10 = 9 THEN 1
    ELSE (bytes[(k \div 10) + 1] \div (2 ^ ((k % 10) - 1))) % 2

RECURSIVE WireByte(_, _, _)
WireByte(bytes, i, j) ==
    IF j = 8 THEN 0 ELSE WireBit(bytes, i * 8 + j) * (2 ^ j) + WireByte(bytes, i, j + 1)

\* params['read'] for a response of these bytes: read_length =
\* ((len * 10) + 7) // 8 bytes of the bit stream, lowest bit first
WireData(bytes) ==
    [i \in 1..(((Len(bytes) * 10) + 7) \div 8) |-> WireByte(bytes, i - 1, 0)]

\* a response [marker, broadcast, register, payload..., crc8], its CRC byte
\* right or off by one
Response(b0, b1, b2, payload, crc_ok) ==
    LET body == <<b0, b1, b2>> \o payload
    IN  body \o <<IF crc_ok THEN Crc8(body) ELSE (Crc8(body) + 1) % 256>>

\* register payloads: none (a response one byte short), a one-byte register, a
\* four-byte register
Payloads == {<<>>, <<4>>, <<1, 0, 0, 0>>}

\* the responses the decode is tried on
Responses ==
    {Response(b0, b1, b2, payload, crc_ok) :
        b0 \in {FRAME_MARKER, 0}, b1 \in {BROADCAST_MARKER, 0},
        b2 \in {REG_MAGNET_STATE, REG_FULL_TURNS}, payload \in Payloads,
        crc_ok \in BOOLEAN}

\* reg_read(None, 0, reg, reg_length) when the line delivers these response bytes
RegRead(reg, bytes) == DecodeRead(reg, WireData(bytes))

\* uart_read_reg(reg, length, retries=5)
RETRIES == 5

\* a loop that does not stop at a valid response
UartReadRegDoneNoBreak(response, n) == n = RETRIES

\* uart_read_reg: the loop ends after transaction n with this response
UartReadRegDone(response, n) == (response # None /\ response # Some(<<>>)) \/ n = RETRIES

\* struct.unpack('<B', data) and struct.unpack('<l', data)
Unpack(data) ==
    IF Len(data) = 1
    THEN data[1]
    ELSE data[1] + data[2] * 256 + data[3] * 65536
           + (IF data[4] >= 128 THEN data[4] - 256 ELSE data[4]) * 16777216

\* uart_read_reg1 / uart_read_reg4 on what uart_read_reg returned
UartValue(response) ==
    IF response # None /\ response # Some(<<>>) THEN Some(Unpack(response[1])) ELSE None

\* the registers of the four fields, in the order they are read, and their widths
FieldRegister == <<REG_MAGNET_STATE, REG_FILAMENT_PRESENCE, REG_FULL_TURNS, REG_ANGLE>>

FieldLength == <<1, 1, 4, 4>>

\* register contents the sensor may send for a field
FieldPayloads(field) ==
    IF FieldLength[field] = 1 THEN {<<0>>, <<4>>} ELSE {<<255, 255, 255, 255>>}

\* what the line may deliver for one transaction reading a field: a valid
\* response, one echoing another register, one with both markers wrong, one with
\* a wrong CRC byte
FieldResponses(field) ==
    {Response(FRAME_MARKER, BROADCAST_MARKER, FieldRegister[field], payload, TRUE) :
        payload \in FieldPayloads(field)}
      \cup {Response(FRAME_MARKER, BROADCAST_MARKER, FieldRegister[(field % 4) + 1],
                      <<4>> \o [i \in 1..(FieldLength[field] - 1) |-> 0], TRUE),
             Response(0, 0, FieldRegister[field],
                      <<4>> \o [i \in 1..(FieldLength[field] - 1) |-> 0], TRUE),
             Response(FRAME_MARKER, BROADCAST_MARKER, FieldRegister[field],
                      <<4>> \o [i \in 1..(FieldLength[field] - 1) |-> 0], FALSE)}

\* what reg_read returns for each response the line may deliver, per field
RegReadResults ==
    [field \in 1..4 |->
        [bytes \in FieldResponses(field) |-> RegRead(FieldRegister[field], bytes)]]

\* the value _update_state_from_sensor passes to _sensor_connected.set after the
\* four serial reads
UartConnected(fields) == \A i \in 1..4 : fields[i] # None

----------------------------------------------------------------------------
(* NonLinearExtrusion and ENABLE_NONLINEAR_EXTRUSION *)

\* texts of the COEFFICIENTS parameter: not given, a list, an empty list, a tuple,
\* a number, the word None, a bare name, an unclosed bracket
CoefficientParams ==
    {"absent", "[1, 2]", "[]", "(3,)", "1.5", "None", "abc", "[1,"}

\* texts of the ENABLE parameter: not given (default 1), integers, not an integer
EnableParams == {"absent", "1", "0", "2", "x"}

\* ast.literal_eval(value): the value of a literal, ValueError for a name,
\* SyntaxError for an unclosed bracket
LiteralEval(text) ==
    IF text = "[1, 2]" THEN [kind |-> "list", value |-> <<1, 2>>]
    ELSE IF text = "[]" THEN [kind |-> "list", value |-> <<>>]
    ELSE IF text = "(3,)" THEN [kind |-> "tuple", value |-> <<3>>]
    ELSE IF text = "1.5" THEN [kind |-> "float", value |-> <<>>]
    ELSE IF text = "None" THEN [kind |-> "NoneType", value |-> <<>>]
    ELSE IF text = "abc" THEN [kind |-> "ValueError", value |-> <<>>]
    ELSE [kind |-> "SyntaxError", value |-> <<>>]

\* an enable check that lets every command through
EnableRejectedNever(enabled, coefs) == FALSE

\* enabled and self.non_linear_transform.coefficients is None
EnableRejected(enabled, coefs) == enabled /\ coefs = None

\* cmd_ENABLE_NONLINEAR_EXTRUSION: the coefficients and the enabled flag when the
\* command returns or raises, and how it ended
EnableNonlinearExtrusion(coefs, enabled, cparam, eparam) ==
    LET parsed == LiteralEval(cparam)
        given == cparam # "absent"
        new_coefs == IF given THEN Some(parsed.value) ELSE coefs
        wanted == eparam \in {"absent", "1"}
    IN  IF given /\ parsed.kind = "SyntaxError"
        THEN [coefficients |-> coefs, enabled |-> enabled, outcome |-> "raised SyntaxError"]
        ELSE IF given /\ parsed.kind \notin {"list", "tuple"}
        THEN [coefficients |-> coefs, enabled |-> enabled, outcome |-> "!! not a list"]
        ELSE IF eparam = "x"
        THEN [coefficients |-> new_coefs, enabled |-> enabled, outcome |-> "raised gcmd.error"]
        ELSE IF EnableRejected(wanted, new_coefs)
        THEN [coefficients |-> new_coefs, enabled |-> enabled,
              outcome |-> "!! no coefficients"]
        ELSE [coefficients |-> new_coefs, enabled |-> wanted,
              outcome |-> IF wanted THEN "enabled" ELSE "disabled"]

----------------------------------------------------------------------------
(* Move ledger *)

\* a trim that drops from the front of the list, the newest moves
TrimLedgerNewest(moves) ==
    IF Len(moves) > LEDGER_CAPACITY
    THEN SubSeq(moves, Len(moves) - LEDGER_CAPACITY + 1, Len(moves))
    ELSE moves

\* while len(self._commanded_moves) > 100: self._commanded_moves.pop()
TrimLedger(moves) ==
    IF Len(moves) > LEDGER_CAPACITY THEN SubSeq(moves, 1, LEDGER_CAPACITY) ELSE moves

\* an opening that leaves the previous newest move open
EndNewestSkipped(moves) == moves

\* move.ended = True on the newest move, when there is one
EndNewest(moves) ==
    IF Len(moves) > 0
    THEN <<[moves[1] EXCEPT !.ended = TRUE]>> \o Tail(moves)
    ELSE moves

\* an inspection that does not ask which extruder is active
InspectCommandedMoveAnyExtruder(moves, lepos, pos, eventtime, active, epos) ==
    IF epos - lepos = 0
    THEN [moves |-> TrimLedger(moves), last_epos |-> lepos]
    ELSE LET previous_event == IF Len(moves) > 0 THEN moves[1].last_event ELSE None
             move == CommandedMove(eventtime, pos,
                        IF previous_event # None THEN previous_event[1].epos ELSE lepos,
                        epos)
         IN  [moves |-> TrimLedger(<<move>> \o EndNewest(moves)), last_epos |-> epos]

\* _inspect_commanded_move: `active` is toolhead.get_extruder() is self.extruder,
\* `epos` is toolhead.get_position()[3]
InspectCommandedMove(moves, lepos, pos, eventtime, active, epos) ==
    IF ~active \/ epos - lepos = 0
    THEN [moves |-> IF active THEN TrimLedger(moves) ELSE moves, last_epos |-> lepos]
    ELSE LET previous_event == IF Len(moves) > 0 THEN moves[1].last_event ELSE None
             move == CommandedMove(eventtime, pos,
                        IF previous_event # None THEN previous_event[1].epos ELSE lepos,
                        epos)
         IN  [moves |-> TrimLedger(<<move>> \o EndNewest(moves)), last_epos |-> epos]

\* all_moves_ended
AllMovesEnded(moves) == [i \in 1..Len(moves) |-> [moves[i] EXCEPT !.ended = TRUE]]

----------------------------------------------------------------------------
(* _update_state_from_sensor, after _inspect_commanded_move *)

\* a block read that does not look at the health byte
ConnectedValueAnyHealth(u, rd) == rd.kind \in {"ok", "sentinel"}

\* the value _update_state_from_sensor passes to self._sensor_connected.set
ConnectedValue(u, rd) ==
    IF u THEN rd.kind = "ok"
         ELSE rd.kind \in {"ok", "sentinel"} /\ rd.magnet # MAGNET_UNSET

\* the logging.warning of the block-read failure branch evaluates len(data) and
\* data.hex(): with data = None (i2c_read_reg caught an exception) that raises
ReadRaises(u, rd) == ~u /\ rd.kind = "exception"

\* a recording that does not look at the ended flag
RecordEventAlways(moves, event) ==
    IF Len(moves) > 0
    THEN <<AddSensorEvent(moves[1], event)>> \o Tail(moves)
    ELSE moves

\* the newest move gets the event iff it exists and is not ended
RecordEvent(moves, event) ==
    IF Len(moves) > 0 /\ ~moves[1].ended
    THEN <<AddSensorEvent(moves[1], event)>> \o Tail(moves)
    ELSE moves

\* the sensor state after the read of one tick; `est` is _get_extruder_pos(eventtime)
UpdateStateFromSensor(moves, pos, raw, magnet, conn, fp, u, rd, eventtime, est) ==
    LET connected == Some(ConnectedValue(u, rd))
        fired1 == Fired("sensor_connected", conn, connected)
        present == Some(rd.presence = 1)
        new_raw == UpdateRaw(rd.raw[1], rd.raw[2])
        new_position == NewPosition(new_raw)
        event == SensorEvent(eventtime, new_position, new_position - pos, est)
    IN  IF ~ConnectedValue(u, rd)
        THEN [moves |-> moves, position |-> pos, raw |-> raw, magnet |-> magnet,
              connected |-> TriggerSet(conn, connected), present |-> fp,
              fired |-> fired1, raised |-> ReadRaises(u, rd)]
        ELSE [moves |-> RecordEvent(moves, event), position |-> new_position,
              raw |-> new_raw, magnet |-> rd.magnet,
              connected |-> TriggerSet(conn, connected),
              present |-> TriggerSet(fp, present),
              fired |-> fired1 \cup Fired("filament_present", fp, present),
              raised |-> FALSE]

----------------------------------------------------------------------------
(* Anomaly engine *)

\* a health check that ignores the magnet state
IsSensorHealthyConnectedOnly(conn, magnet) == conn = Some(TRUE)

\* _is_sensor_healthy
IsSensorHealthy(conn, magnet) == conn = Some(TRUE) /\ magnet = DETECTED

\* a dwell comparison that also fires when the elapsed time equals the period
DwellElapsedInclusive(start, t) == start + underextrusion_period <= t

\* a dwell comparison that fires as soon as the timer runs
DwellIgnored(start, t) == TRUE

\* self._underextrusion_start_time + self.underextrusion_period < self.reactor.monotonic()
DwellElapsed(start, t) == start + underextrusion_period < t

\* rate > self.underextrusion_max_rate for the evaluation aggregate
RateExceeded(optmove) ==
    RateGreater(MeasuredUnderextrusionRate(optmove), underextrusion_max_rate)

\* a runout condition that keeps the timer and the flag when the rate recovers
IsRunoutConditionNoReset(fp, optmove, start, under, t) ==
    IF fp # Some(TRUE)
    THEN [result |-> TRUE, start |-> start, under |-> under, fired |-> {}]
    ELSE IF RateExceeded(optmove) /\ start = None
    THEN [result |-> FALSE, start |-> Some(t), under |-> under, fired |-> {}]
    ELSE IF RateExceeded(optmove) /\ DwellElapsed(start[1], t)
    THEN [result |-> TRUE, start |-> start, under |-> TRUE,
          fired |-> IF under THEN {} ELSE {<<"underextruding", under, TRUE>>}]
    ELSE [result |-> FALSE, start |-> start, under |-> under, fired |-> {}]

\* a runout condition that puts filament absence through the dwell as well
IsRunoutConditionAbsentDwell(fp, optmove, start, under, t) ==
    IF start = None
    THEN [result |-> FALSE, start |-> Some(t), under |-> under, fired |-> {}]
    ELSE [result |-> DwellElapsed(start[1], t), start |-> start, under |-> under,
          fired |-> {}]

\* _is_runout_condition at monotonic time t: its result, and the timer and the
\* under-extrusion trigger when it returns
IsRunoutCondition(fp, optmove, start, under, t) ==
    IF fp # Some(TRUE)
    THEN [result |-> TRUE, start |-> start, under |-> under, fired |-> {}]
    ELSE IF RateExceeded(optmove)
    THEN IF start = None
         THEN [result |-> FALSE, start |-> Some(t), under |-> under, fired |-> {}]
         ELSE IF DwellElapsed(start[1], t)
         THEN [result |-> TRUE, start |-> start, under |-> TriggerSet(under, TRUE),
               fired |-> Fired("underextruding", under, TRUE)]
         ELSE [result |-> FALSE, start |-> start, under |-> under, fired |-> {}]
    ELSE IF start # None
         THEN [result |-> FALSE, start |-> None, under |-> TriggerSet(under, FALSE),
               fired |-> Fired("underextruding", under, FALSE)]
         ELSE [result |-> FALSE, start |-> start, under |-> under, fired |-> {}]

\* _check_print_issues at monotonic time t; alerts counts _runout_event_handler calls
CheckPrintIssues(printing, conn, magnet, fp, optmove, unh, run, start, under, t) ==
    LET same == [unhealthy |-> unh, runout |-> run, start |-> start, under |-> under,
                 alerts |-> 0, fired |-> {}, raised |-> FALSE]
        rc == IsRunoutCondition(fp, optmove, start, under, t)
        f1 == Fired("unhealthy", unh, FALSE)
    IN  IF ~printing
        THEN same
        ELSE IF conn = None \/ (IsSensorHealthy(conn, magnet) /\ fp = None)
        THEN [same EXCEPT !.raised = TRUE]  \* bool() of a trigger holding None
        ELSE IF ~IsSensorHealthy(conn, magnet)
        THEN IF ~unh
             THEN [same EXCEPT !.unhealthy = TriggerSet(unh, TRUE), !.alerts = 1,
                               !.fired = Fired("unhealthy", unh, TRUE)]
             ELSE same
        ELSE IF rc.result
        THEN [unhealthy |-> TriggerSet(unh, FALSE),
              runout |-> IF ~run THEN TriggerSet(run, TRUE) ELSE run,
              start |-> rc.start, under |-> rc.under,
              alerts |-> IF ~run THEN 1 ELSE 0,
              fired |-> f1 \cup rc.fired \cup
                        (IF ~run THEN Fired("runout", run, TRUE) ELSE {}),
              raised |-> FALSE]
        ELSE [unhealthy |-> TriggerSet(unh, FALSE),
              runout |-> TriggerSet(run, FALSE),
              start |-> rc.start, under |-> rc.under, alerts |-> 0,
              fired |-> f1 \cup rc.fired \cup Fired("runout", run, FALSE),
              raised |-> FALSE]

\* a gate that is always open
AlertGateOpen(eventtime, min_systime, enabled) == TRUE

\* the gate of _sensor_update_event before _check_print_issues
AlertGate(eventtime, min_systime, enabled) == eventtime >= min_systime /\ enabled

\* a re-arm that adds no delay
QuietUntilNoDelay(done) == done

\* _exec_gcode: min_event_systime after the script completed at time `done`
QuietUntil(done) == done + event_delay

\* the waketime _sensor_update_event returns
NextWake(eventtime) == eventtime + CHECK_RUNOUT_TIMEOUT

----------------------------------------------------------------------------
(* Status snapshot and QUERY_FILAMENT_SENSOR *)

\* bool(trigger) and `x if trigger else y`: TriggerOnChange.__bool__ returns
\* self._value, and Python raises TypeError when __bool__ returns None; the
\* result is <<the boolean>>, None when it raises
TriggerBool(value) == value

\* str(MotionDirection(distance))
Direction(distance) ==
    IF distance = 0 THEN "idle" ELSE IF distance > 0 THEN "extruding" ELSE "reversing"

\* CommandedMove.duration: None without a last motion event or when its
\* eventtime is 0 (`if e := ...`), else the time between the motion events
Duration(move) ==
    IF move.last_motion_event = None \/ move.last_motion_event[1].eventtime = 0
    THEN None
    ELSE Some(move.last_motion_event[1].eventtime - move.first_motion_event[1].eventtime)

\* CommandedMove.speed as a fraction, None without a non-zero duration
Speed(move) ==
    IF Duration(move) = None \/ Duration(move) = Some(0)
    THEN None
    ELSE Some(<<MeasuredDistance(move), Duration(move)[1]>>)

\* get_status: <<the snapshot>>, None when it raises.  measured_volumetric_flow
\* (measured_speed times the extruder's filament area) is left out.
GetStatus(optmove, enabled, conn, magnet, fp, printing, under, run, pos) ==
    LET speed == IF optmove # None /\ ~optmove[1].ended THEN Speed(optmove[1]) ELSE None
    IN  IF TriggerBool(conn) = None \/ TriggerBool(fp) = None
        THEN None
        ELSE Some([enabled |-> enabled,
                   sensor_connected |-> TriggerBool(conn)[1],
                   magnet_state |-> magnet,
                   filament_detected |-> TriggerBool(fp)[1],
                   motion |->
                     [detected |-> optmove # None /\ MeasuredDistance(optmove[1]) # 0,
                      direction |-> IF optmove # None
                                    THEN Direction(MeasuredDistance(optmove[1]))
                                    ELSE "idle",
                      commanded_distance |->
                         IF optmove # None /\ ~optmove[1].ended
                         THEN optmove[1].distance ELSE 0,
                      expected_distance |->
                         IF optmove # None THEN ExpectedDistance(optmove[1]) ELSE Some(0),
                      measured_distance |->
                         IF optmove # None THEN MeasuredDistance(optmove[1]) ELSE 0,
                      measured_speed |->
                         IF speed = None \/ speed[1][1] = 0 THEN <<0, 1>> ELSE speed[1]],
                   underextrusion_rate |->
                      IF optmove # None /\ printing
                      THEN MeasuredUnderextrusionRate(optmove) ELSE <<0, 1>>,
                   underextrusion_detected |-> under,
                   runout |-> run,
                   position |-> pos])

\* cmd_QUERY_FILAMENT_SENSOR: <<the four state lines of the response>>, None when
\* it raises
QueryFilamentSensor(conn, fp, run, under) ==
    IF TriggerBool(conn) = None \/ TriggerBool(fp) = None
    THEN None
    ELSE Some([sensor |-> IF TriggerBool(conn)[1] THEN "connected" ELSE "not connected",
               filament |-> IF TriggerBool(fp)[1] THEN "detected" ELSE "not detected",
               runout |-> IF run THEN "detected" ELSE "not detected",
               underextrusion |-> IF under THEN "detected" ELSE "not detected"])

----------------------------------------------------------------------------
(* The state machine *)

\* what a handler reports about itself
Observation(op, read, gate, t, alerts, fired) ==
    [op |-> op, read |-> read, gate |-> gate, t |-> t, alerts |-> alerts, fired |-> fired]

TriggerInit ==
    /\ trig_value = Some(FALSE)
    /\ trig_base = Some(FALSE)
    /\ trig_fed = <<>>
    /\ trig_calls = <<>>

\* the object after __init__ and klippy:ready, which arms the poll timer
SensorInit ==
    /\ commanded_moves = <<>>
    /\ position = 0
    /\ is_printing = FALSE
    /\ unhealthy = FALSE
    /\ runout = FALSE
    /\ underextrusion_start_time = None
    /\ underextruding = FALSE
    /\ last_epos = 0
    /\ status_evaluation_move = None
    /\ magnet_state = MAGNET_UNSET
    /\ sensor_connected = None
    /\ filament_present = None
    /\ absolute_angular_position = 0
    /\ min_event_systime = 0
    /\ sensor_enabled = TRUE
    /\ uart \in BOOLEAN
    /\ underextrusion_period \in PeriodValues
    /\ now = 0
    /\ wake = 0
    /\ crashed = FALSE
    /\ tick = Observation("init", "none", FALSE, 0, 0, {})

\* no combine or rate call has been made
CombineInit == window = None /\ combined = None

RateInit == rate_move = None /\ rate = None

\* SensorRotationHelper.__init__ with the configured hysteresis
RotationInit ==
    /\ ignore_bits = hysteresis_bits
    /\ raw_reading = <<0, 0>>
    /\ rotation_position = 0
    /\ previous_reading = <<0, 0>>
    /\ previous_position = 0

FrameInit == frame = [reg |-> 0, data |-> <<>>] /\ decoded = None

\* no serial register read is in progress
UartInit ==
    /\ uart_pc = 0
    /\ uart_fields = <<None, None, None, None>>
    /\ uart_attempts = <<0, 0, 0, 0>>
    /\ uart_last = [field |-> 0, bytes |-> <<>>]
    /\ uart_connected = None

\* NonLinearExtrusion.__init__
NleInit ==
    /\ coefficients = None
    /\ nle_enabled = FALSE
    /\ nle_response = [coefficients |-> "absent", enable |-> "absent",
                       outcome |-> "none", was_enabled |-> FALSE]

\* no poll tick has been observed
InputInit == poll_input = None

Init ==
    /\ SensorInit /\ TriggerInit
    /\ CombineInit /\ RateInit /\ RotationInit /\ FrameInit /\ UartInit /\ NleInit /\ InputInit

\* self._status_evaluation_move is the newest move itself, not a copy, when the
\* aggregate covers that move only: ending the newest move then shows through it
SameObject(optmove, moves, ended_moves, ends) ==
    IF ends /\ optmove # None /\ Len(moves) > 0 /\ optmove[1] = moves[1]
    THEN Some(ended_moves[1])
    ELSE optmove

\* _sensor_update_event(eventtime), dispatched by the reactor at eventtime; the
\* clock reads eventtime throughout the tick, until _runout_event_handler, when
\* it is called, takes dur
SensorUpdateEvent(active, epos, rd, est, dur) ==
    \E eventtime \in {Max(now, wake)} :
    \E ins \in {InspectCommandedMove(commanded_moves, last_epos, position,
                                     eventtime, active, epos)} :
    \E up \in {UpdateStateFromSensor(ins.moves, position, absolute_angular_position,
                                     magnet_state, sensor_connected, filament_present,
                                     uart, rd, eventtime, est)} :
    \E aggregate \in {CombineMovesForDistance(up.moves, move_evaluation_distance)} :
    \E gate \in {AlertGate(eventtime, min_event_systime, sensor_enabled)} :
    \E chk \in {CheckPrintIssues(is_printing, up.connected, up.magnet, up.present,
                                 aggregate, unhealthy, runout,
                                 underextrusion_start_time, underextruding,
                                 eventtime)} :
    LET t == eventtime
        ran == gate /\ ~up.raised
        done == IF ran /\ chk.alerts > 0 THEN t + dur ELSE t
    IN  /\ ~crashed
        /\ commanded_moves' = up.moves
        /\ last_epos' = ins.last_epos
        /\ position' = up.position
        /\ absolute_angular_position' = up.raw
        /\ magnet_state' = up.magnet
        /\ sensor_connected' = up.connected
        /\ filament_present' = up.present
        /\ status_evaluation_move' =
              IF up.raised
              THEN SameObject(status_evaluation_move, commanded_moves,
                              EndNewest(commanded_moves), ins.moves # commanded_moves)
              ELSE aggregate
        /\ unhealthy' = IF ran THEN chk.unhealthy ELSE unhealthy
        /\ runout' = IF ran THEN chk.runout ELSE runout
        /\ underextrusion_start_time' = IF ran THEN chk.start ELSE underextrusion_start_time
        /\ underextruding' = IF ran THEN chk.under ELSE underextruding
        /\ min_event_systime' =
              IF ran /\ chk.alerts > 0 THEN QuietUntil(done) ELSE min_event_systime
        /\ crashed' = (up.raised \/ (ran /\ chk.raised))
        /\ wake' = IF crashed' THEN wake ELSE NextWake(eventtime)
        /\ now' = done
        /\ tick' = Observation("poll", rd.kind, gate, t,
                               IF ran THEN chk.alerts ELSE 0,
                               up.fired \cup (IF ran THEN chk.fired ELSE {}))
        /\ UNCHANGED <<is_printing, sensor_enabled, uart, underextrusion_period>>
        /\ UNCHANGED trigVars
        /\ UNCHANGED sideVars

\* extruder.find_past_position(print_time): the extruder is taken to have reached
\* the commanded position when the tick reads it
PastPosition(epos) == epos

\* the poll timer fires; the environment supplies the tick's inputs (an input
\* the tick does not read is left at its first value)
Poll ==
    /\ Max(now, wake) < MaxTime
    /\ \E active \in BOOLEAN, epos \in EposValues, rd \in Readings(uart),
          dur \in ScriptTimes :
          /\ active \/ epos = last_epos
          /\ (active /\ epos # last_epos) => Len(commanded_moves) < MaxOpenings
          /\ SensorUpdateEvent(active, epos, rd, PastPosition(epos), dur)
          /\ dur # 0 => tick'.alerts > 0
    /\ UNCHANGED inputVars

\* _handle_printing (idle_timeout:printing).  _underextruding.set(False) runs after
\* the timer was cleared: when the flag was set, _underextruding_changed subtracts
\* None from reactor.monotonic() and raises before the value is stored
HandlePrinting ==
    LET raises == TriggerFires(underextruding, FALSE)
    IN  /\ ~crashed
        /\ runout' = TriggerSet(runout, FALSE)
        /\ underextrusion_start_time' = None
        /\ underextruding' = IF raises THEN underextruding ELSE TriggerSet(underextruding, FALSE)
        /\ is_printing' = IF raises THEN is_printing ELSE TRUE
        /\ commanded_moves' = IF raises THEN commanded_moves ELSE <<>>
        /\ status_evaluation_move' = IF raises THEN status_evaluation_move ELSE None
        /\ crashed' = raises
        /\ tick' = Observation("printing", "none", FALSE, now, 0,
                               Fired("runout", runout, FALSE)
                                 \cup Fired("underextruding", underextruding, FALSE))
        /\ UNCHANGED <<position, unhealthy, last_epos, magnet_state, sensor_connected,
                       filament_present, absolute_angular_position, min_event_systime,
                       sensor_enabled, uart, underextrusion_period, now, wake>>
        /\ UNCHANGED trigVars
        /\ UNCHANGED inputVars
        /\ UNCHANGED sideVars

\* _handle_not_printing (idle_timeout:ready, idle_timeout:idle)
HandleNotPrinting ==
    /\ ~crashed
    /\ is_printing' = FALSE
    /\ commanded_moves' = AllMovesEnded(commanded_moves)
    /\ status_evaluation_move' =
          SameObject(status_evaluation_move, commanded_moves,
                     AllMovesEnded(commanded_moves), TRUE)
    /\ UNCHANGED <<position, unhealthy, runout, underextrusion_start_time,
                   underextruding, last_epos, magnet_state, sensor_connected,
                   filament_present, absolute_angular_position, min_event_systime,
                   sensor_enabled, uart, underextrusion_period, now, wake, crashed,
                   tick>>
    /\ UNCHANGED trigVars
    /\ UNCHANGED inputVars
    /\ UNCHANGED sideVars

\* _toolhead_set_position (toolhead:set_position)
ToolheadSetPosition ==
    /\ ~crashed
    /\ \E active \in BOOLEAN, epos \in EposValues :
          last_epos' = IF active THEN epos ELSE last_epos
    /\ UNCHANGED <<commanded_moves, position, is_printing, unhealthy, runout,
                   underextrusion_start_time, underextruding, status_evaluation_move,
                   magnet_state, sensor_connected, filament_present,
                   absolute_angular_position, min_event_systime, sensor_enabled,
                   uart, underextrusion_period, now, wake, crashed, tick>>
    /\ UNCHANGED trigVars
    /\ UNCHANGED inputVars
    /\ UNCHANGED sideVars

\* the host switches alerting (runout_helper.sensor_enabled) on or off
SetSensorEnabled ==
    /\ ~crashed
    /\ sensor_enabled' = ~sensor_enabled
    /\ UNCHANGED <<commanded_moves, position, is_printing, unhealthy, runout,
                   underextrusion_start_time, underextruding, last_epos,
                   status_evaluation_move, magnet_state, sensor_connected,
                   filament_present, absolute_angular_position, min_event_systime,
                   uart, underextrusion_period, now, wake, crashed, tick>>
    /\ UNCHANGED trigVars
    /\ UNCHANGED inputVars
    /\ UNCHANGED sideVars

Next == Poll \/ HandlePrinting \/ HandleNotPrinting

Spec == Init /\ [][Next]_vars

----------------------------------------------------------------------------
(* The ledger filled past its capacity: every tick sees a changed commanded *)
(* position, and a register read that fails                                 *)

LedgerPoll ==
    /\ Max(now, wake) < MaxLedgerTicks
    /\ \E epos \in EposValues \ {last_epos} :
          SensorUpdateEvent(TRUE, epos,
                            [kind |-> IF uart THEN "nofield" ELSE "badlen",
                             magnet |-> MAGNET_UNSET, presence |-> 0, raw |-> <<0, 0>>],
                            epos, 0)
    /\ UNCHANGED inputVars

LedgerNext == LedgerPoll \/ HandleNotPrinting

SpecLedger == Init /\ [][LedgerNext]_vars

----------------------------------------------------------------------------
(* A stand-alone TriggerOnChange fed a sequence of values *)

TriggerSpecInit ==
    /\ SensorInit
    /\ trig_base \in {None, Some(FALSE), Some(TRUE)}
    /\ trig_value = trig_base
    /\ trig_fed = <<>>
    /\ trig_calls = <<>>
    /\ CombineInit /\ RateInit /\ RotationInit /\ FrameInit /\ UartInit /\ NleInit /\ InputInit

\* TriggerOnChange.set(value) with a callback that records its arguments
TriggerCall ==
    /\ Len(trig_fed) < MaxCalls
    /\ \E value \in BOOLEAN :
          /\ trig_fed' = Append(trig_fed, value)
          /\ trig_calls' = IF TriggerFires(trig_value, Some(value))
                           THEN Append(trig_calls, <<trig_value, Some(value)>>)
                           ELSE trig_calls
          /\ trig_value' = TriggerSet(trig_value, Some(value))
          /\ trig_base' = trig_base
    /\ UNCHANGED sensorVars
    /\ UNCHANGED inputVars
    /\ UNCHANGED sideVars

SpecTrigger == TriggerSpecInit /\ [][TriggerCall]_vars

----------------------------------------------------------------------------
(* A ledger built by poll ticks, then combined for a distance *)

CombineSpecInit ==
    /\ SensorInit /\ TriggerInit
    /\ CombineInit /\ RateInit /\ RotationInit /\ FrameInit /\ UartInit /\ NleInit /\ InputInit

\* a poll tick while the printer is idle: the commanded position may have changed,
\* the register read succeeds or fails
CombinePoll ==
    /\ window = None
    /\ Max(now, wake) < MaxCombineTicks
    /\ \E epos \in CombineEpos,
          rd \in {GoodRead(DETECTED, 1, raw) : raw \in RawReadings}
                   \cup {FailedRead(IF uart THEN "nofield" ELSE "badlen")} :
          SensorUpdateEvent(TRUE, epos, rd, PastPosition(epos), 0)
    /\ UNCHANGED inputVars

\* _combine_moves_for_distance(distance)
CombineCall ==
    /\ window = None
    /\ \E distance \in WindowValues :
          /\ window' = Some(distance)
          /\ combined' = CombineMovesForDistance(commanded_moves, distance)
    /\ UNCHANGED sensorVars
    /\ UNCHANGED trigVars
    /\ UNCHANGED inputVars
    /\ UNCHANGED <<rateVars, rotationVars, frameVars, uartVars, nleVars>>

CombineNext == CombinePoll \/ CombineCall

SpecCombine == CombineSpecInit /\ [][CombineNext]_vars

----------------------------------------------------------------------------
(* _measured_underextrusion_rate applied to one move *)

RateSpecInit ==
    /\ SensorInit /\ TriggerInit
    /\ CombineInit /\ RotationInit /\ FrameInit /\ UartInit /\ NleInit /\ InputInit
    /\ rate_move \in RateMoves
    /\ rate = None

\* _measured_underextrusion_rate(move)
RateCall ==
    /\ rate = None
    /\ rate' = Some(MeasuredUnderextrusionRate(rate_move))
    /\ UNCHANGED rate_move
    /\ UNCHANGED sensorVars
    /\ UNCHANGED trigVars
    /\ UNCHANGED inputVars
    /\ UNCHANGED <<combineVars, rotationVars, frameVars, uartVars, nleVars>>

SpecRate == RateSpecInit /\ [][RateCall]_vars

----------------------------------------------------------------------------
(* A stand-alone SensorRotationHelper fed raw readings *)

RotationSpecInit ==
    /\ SensorInit /\ TriggerInit
    /\ CombineInit /\ RateInit /\ FrameInit /\ UartInit /\ NleInit /\ InputInit
    /\ ignore_bits \in 0..MaxIgnoreBits
    /\ raw_reading = <<0, 0>>
    /\ rotation_position = 0
    /\ previous_reading = <<0, 0>>
    /\ previous_position = 0

\* SensorRotationHelper.update_raw(turns, angle)
RotationUpdate ==
    /\ \E turns \in TurnValues, angle \in AngleValues :
          /\ raw_reading' = <<turns, angle>>
          /\ rotation_position' = UpdateRaw(turns, angle)
    /\ previous_reading' = raw_reading
    /\ previous_position' = rotation_position
    /\ UNCHANGED ignore_bits
    /\ UNCHANGED sensorVars
    /\ UNCHANGED trigVars
    /\ UNCHANGED inputVars
    /\ UNCHANGED <<combineVars, rateVars, frameVars, uartVars, nleVars>>

SpecRotation == RotationSpecInit /\ [][RotationUpdate]_vars

----------------------------------------------------------------------------
(* _decode_read applied to one response *)

FrameSpecInit ==
    /\ SensorInit /\ TriggerInit
    /\ CombineInit /\ RateInit /\ RotationInit /\ UartInit /\ NleInit /\ InputInit
    /\ \E reg \in {REG_MAGNET_STATE, REG_FULL_TURNS}, bytes \in Responses :
          frame = [reg |-> reg, data |-> WireData(bytes)]
    /\ decoded = None

\* _decode_read(reg, data)
DecodeCall ==
    /\ decoded = None
    /\ decoded' = Some(DecodeRead(frame.reg, frame.data))
    /\ UNCHANGED frame
    /\ UNCHANGED sensorVars
    /\ UNCHANGED trigVars
    /\ UNCHANGED inputVars
    /\ UNCHANGED <<combineVars, rateVars, rotationVars, uartVars, nleVars>>

SpecFrame == FrameSpecInit /\ [][DecodeCall]_vars

----------------------------------------------------------------------------
(* The serial register read of one poll tick, one transaction per step *)

UartSpecInit ==
    /\ SensorInit /\ TriggerInit
    /\ CombineInit /\ RateInit /\ RotationInit /\ FrameInit /\ NleInit /\ InputInit
    /\ uart = TRUE
    /\ uart_pc = 1
    /\ uart_fields = <<None, None, None, None>>
    /\ uart_attempts = <<0, 0, 0, 0>>
    /\ uart_last = [field |-> 0, bytes |-> <<>>]
    /\ uart_connected = None

\* one self.uart.reg_read of the loop of uart_read_reg for the current field, up
\* to the next transaction; after the last one of the fourth field, the
\* _sensor_connected.set of _update_state_from_sensor
UartTransaction ==
    /\ uart_pc \in 1..4
    /\ \E bytes \in DOMAIN RegReadResults[uart_pc] :
       \E response \in {RegReadResults[uart_pc][bytes]} :
       \E n \in {uart_attempts[uart_pc] + 1} :
       \E done \in {UartReadRegDone(response, n)} :
          /\ uart_attempts' = [uart_attempts EXCEPT ![uart_pc] = n]
          /\ uart_last' = [field |-> uart_pc, bytes |-> bytes]
          /\ uart_fields' = IF done
                             THEN [uart_fields EXCEPT ![uart_pc] = UartValue(response)]
                             ELSE uart_fields
          /\ uart_pc' = IF done THEN uart_pc + 1 ELSE uart_pc
          /\ uart_connected' = IF done /\ uart_pc = 4
                                THEN Some(UartConnected(uart_fields'))
                                ELSE uart_connected
    /\ UNCHANGED sensorVars
    /\ UNCHANGED trigVars
    /\ UNCHANGED inputVars
    /\ UNCHANGED <<combineVars, rateVars, rotationVars, frameVars, nleVars>>

SpecUart == UartSpecInit /\ [][UartTransaction]_vars

----------------------------------------------------------------------------
(* A sequence of ENABLE_NONLINEAR_EXTRUSION commands *)

NleSpecInit ==
    /\ SensorInit /\ TriggerInit
    /\ CombineInit /\ RateInit /\ RotationInit /\ FrameInit /\ UartInit /\ NleInit /\ InputInit

\* cmd_ENABLE_NONLINEAR_EXTRUSION(gcmd)
CmdEnableNonlinearExtrusion ==
    /\ \E cparam \in CoefficientParams, eparam \in EnableParams :
       \E r \in {EnableNonlinearExtrusion(coefficients, nle_enabled, cparam, eparam)} :
          /\ coefficients' = r.coefficients
          /\ nle_enabled' = r.enabled
          /\ nle_response' = [coefficients |-> cparam, enable |-> eparam,
                               outcome |-> r.outcome, was_enabled |-> nle_enabled]
    /\ UNCHANGED sensorVars
    /\ UNCHANGED trigVars
    /\ UNCHANGED inputVars
    /\ UNCHANGED <<combineVars, rateVars, rotationVars, frameVars, uartVars>>

SpecNle == NleSpecInit /\ [][CmdEnableNonlinearExtrusion]_vars

----------------------------------------------------------------------------
(* Poll ticks whose toolhead report is observed: any extruder may be active  *)
(* and the commanded position is free; the host may also set the position    *)
(* without a move                                                            *)

InspectPoll ==
    /\ Max(now, wake) < MaxTime
    /\ \E active \in BOOLEAN, epos \in EposValues,
          rd \in {GoodRead(DETECTED, 1, <<0, 8>>),
                  FailedRead(IF uart THEN "nofield" ELSE "badlen")} :
          /\ SensorUpdateEvent(active, epos, rd, PastPosition(epos), 0)
          /\ poll_input' = Some([active |-> active, epos |-> epos])

InspectNext == InspectPoll \/ HandlePrinting \/ HandleNotPrinting \/ ToolheadSetPosition

SpecInspect == Init /\ [][InspectNext]_vars

----------------------------------------------------------------------------
(* The poll loop while the host switches alerting on and off *)

\* a poll tick of this sensor's extruder
GatePoll ==
    /\ Max(now, wake) < MaxTime
    /\ \E epos \in EposValues,
          rd \in {GoodRead(DETECTED, 1, <<0, 8>>), GoodRead(DETECTED, 0, <<0, 0>>),
                  GoodRead(TOO_WEAK, 1, <<0, 0>>),
                  FailedRead(IF uart THEN "nofield" ELSE "badlen")},
          dur \in ScriptTimes :
          /\ epos # last_epos => Len(commanded_moves) < MaxOpenings
          /\ SensorUpdateEvent(TRUE, epos, rd, PastPosition(epos), dur)
          /\ dur # 0 => tick'.alerts > 0
    /\ UNCHANGED inputVars

GateNext == GatePoll \/ HandlePrinting \/ HandleNotPrinting \/ SetSensorEnabled

SpecGate == Init /\ [][GateNext]_vars

----------------------------------------------------------------------------
(* Vocabulary of the properties *)

\* this step is a run of _sensor_update_event
PollStep == tick'.op = "poll" /\ (wake' # wake \/ (crashed' /\ ~crashed))

\* this step is a poll tick that evaluated print issues: printing, alerting
\* enabled, quiet period elapsed (and the read did not raise)
EvaluatedStep == PollStep /\ ~crashed' /\ tick'.gate /\ is_printing

\* the sensor is healthy after this tick's read
HealthyAfter == sensor_connected' = Some(TRUE) /\ magnet_state' = DETECTED

\* the rate of this tick's evaluation aggregate exceeds the configured maximum
ExceededAfter ==
    RateGreater(MeasuredUnderextrusionRate(status_evaluation_move'),
                underextrusion_max_rate)

\* this tick reached the rate comparison of _is_runout_condition
RateEvaluatedStep == EvaluatedStep /\ HealthyAfter /\ filament_present' = Some(TRUE)

\* the last handler was a poll tick that evaluated print issues
EvaluatedTick == tick.op = "poll" /\ tick.gate /\ is_printing /\ ~crashed

----------------------------------------------------------------------------
(* Claims *)

\* C1 as stated: with filament present and a healthy sensor, the timer starts at
\* the first evaluated tick whose rate exceeds the maximum, and under-extrusion
\* and runout both become true at the first later evaluated tick at which the
\* elapsed time is greater than or equal to the dwell period.
C1_DwellInclusive ==
    [][RateEvaluatedStep /\ ExceededAfter =>
          /\ underextrusion_start_time = None =>
                /\ underextrusion_start_time' = Some(tick'.t)
                /\ ~underextruding' /\ ~runout'
          /\ (/\ underextrusion_start_time # None
              /\ tick'.t - underextrusion_start_time[1] >= underextrusion_period) =>
                underextruding' /\ runout']_vars

\* C1 amended: as C1, but under-extrusion and runout become true at the first
\* later evaluated tick at which the elapsed time is strictly greater than the
\* dwell period; until then the timer keeps running and neither is raised.
C1_DwellStrict ==
    [][RateEvaluatedStep /\ ExceededAfter =>
          /\ underextrusion_start_time = None =>
                /\ underextrusion_start_time' = Some(tick'.t)
                /\ ~underextruding' /\ ~runout'
          /\ (/\ underextrusion_start_time # None
              /\ tick'.t - underextrusion_start_time[1] > underextrusion_period) =>
                /\ underextruding' /\ runout'
                /\ underextrusion_start_time' = underextrusion_start_time
          /\ (/\ underextrusion_start_time # None
              /\ tick'.t - underextrusion_start_time[1] <= underextrusion_period) =>
                /\ underextruding' = underextruding /\ ~runout'
                /\ underextrusion_start_time' = underextrusion_start_time]_vars

\* C1 witness: a tick raised under-extrusion and runout although the configured
\* dwell period is not zero, so the timer ran over at least two earlier ticks
C1_Witness ==
    /\ EvaluatedTick
    /\ underextrusion_period > 0
    /\ <<"underextruding", FALSE, TRUE>> \in tick.fired
    /\ underextruding /\ runout
    /\ tick.t - underextrusion_start_time[1] > underextrusion_period

\* C2: the under-extrusion flag rises only at an evaluated tick whose rate exceeds
\* the maximum and whose timer, started at an earlier tick, has run for longer
\* than the dwell period; every tick that evaluates a rate at or below the
\* maximum clears the timer; the tick that starts the timer raises neither the
\* flag nor an alert.
C2_DebounceSafety ==
    [][/\ (~underextruding /\ underextruding') =>
             /\ RateEvaluatedStep /\ ExceededAfter
             /\ underextrusion_start_time # None
             /\ underextrusion_start_time' = underextrusion_start_time
             /\ tick'.t - underextrusion_start_time[1] > underextrusion_period
       /\ (RateEvaluatedStep /\ ~ExceededAfter) => underextrusion_start_time' = None
       /\ (underextrusion_start_time = None /\ underextrusion_start_time' # None) =>
             /\ RateEvaluatedStep /\ ExceededAfter
             /\ ~underextruding' /\ ~runout' /\ tick'.alerts = 0]_vars

\* C2 witness: the flag was raised by the last tick
C2_Witness ==
    /\ tick.op = "poll"
    /\ <<"underextruding", FALSE, TRUE>> \in tick.fired
    /\ underextruding
    /\ tick.alerts = 1

\* C3 as stated: whenever the rate of the evaluation aggregate is at or below the
\* maximum at a poll tick, the timer is cleared and the under-extrusion flag is
\* false by the end of that tick.
C3_ResetAtAnyTick ==
    [][(PollStep /\ ~crashed' /\ ~ExceededAfter) =>
          underextrusion_start_time' = None /\ ~underextruding']_vars

\* C3 amended: whenever the rate is at or below the maximum at an evaluated poll
\* tick (printing, alerting enabled, quiet period elapsed) with a healthy sensor
\* and filament present, the timer is cleared and the under-extrusion flag is
\* false by the end of that tick.
C3_ResetAtEvaluatedTick ==
    [][(RateEvaluatedStep /\ ~ExceededAfter) =>
          underextrusion_start_time' = None /\ ~underextruding']_vars

\* C3 witness: a raised under-extrusion flag was cleared by the last tick
C3_Witness ==
    /\ EvaluatedTick
    /\ <<"underextruding", TRUE, FALSE>> \in tick.fired
    /\ ~underextruding
    /\ underextrusion_start_time = None

\* C4: at an evaluated tick with a healthy sensor and filament not present, runout
\* is true after the tick, and the alert is invoked in that tick exactly when
\* runout was false before it (so not again while filament stays absent).
C4_ImmediateRunout ==
    [][(EvaluatedStep /\ HealthyAfter /\ filament_present' = Some(FALSE)) =>
          /\ runout'
          /\ tick'.alerts = (IF runout THEN 0 ELSE 1)
          /\ underextrusion_start_time' = underextrusion_start_time]_vars

\* C4 witness: a second consecutive evaluated tick with filament absent, which
\* kept runout and invoked no alert
C4_Witness ==
    /\ EvaluatedTick
    /\ sensor_connected = Some(TRUE) /\ magnet_state = DETECTED
    /\ filament_present = Some(FALSE)
    /\ runout /\ tick.alerts = 0
    /\ tick.fired = {}

\* C5: the sensor is healthy iff it is connected and the magnet state is
\* 'detected'; at an evaluated tick where it is unhealthy the alert is invoked iff
\* the unhealthy flag was false before, the flag is true afterwards, and runout,
\* under-extrusion and the timer are unchanged.
C5_HealthPriority ==
    [][EvaluatedStep =>
          /\ ~HealthyAfter =>
                /\ unhealthy'
                /\ tick'.alerts = (IF unhealthy THEN 0 ELSE 1)
                /\ UNCHANGED <<runout, underextruding, underextrusion_start_time>>
          /\ HealthyAfter => ~unhealthy']_vars

\* C5 witness: an evaluated tick found a connected sensor with a weak magnet while
\* a runout was flagged, and raised the unhealthy alert
C5_Witness ==
    /\ EvaluatedTick
    /\ sensor_connected = Some(TRUE) /\ magnet_state = TOO_WEAK
    /\ unhealthy /\ tick.alerts = 1
    /\ runout

\* C6: every alert invocation sets the minimum next-event time to the completion
\* time plus the event delay; no alert is invoked at a tick whose eventtime is
\* earlier than the minimum; at most one alert is invoked per tick.
C6_QuietPeriod ==
    [][/\ tick'.alerts <= 1
       /\ (PollStep /\ tick'.alerts > 0) =>
             /\ min_event_systime' = now' + event_delay
             /\ Max(now, wake) >= min_event_systime
       /\ (PollStep /\ tick'.alerts = 0) => min_event_systime' = min_event_systime]_vars

\* C6 witness: an alert whose script took time, followed by the quiet period
C6_Witness ==
    /\ tick.op = "poll" /\ tick.alerts = 1
    /\ now > tick.t
    /\ min_event_systime = now + event_delay

\* C7: a poll tick whose block read raises a transport exception or returns a
\* byte count other than 10 marks the sensor not connected, completes without
\* raising, and returns the next wake time (eventtime + one poll interval).
C7_NoCrashOnSensorLoss ==
    [][(PollStep /\ ~uart /\ tick'.read \in {"exception", "badlen"}) =>
          /\ sensor_connected' = Some(FALSE)
          /\ ~crashed'
          /\ wake' = Max(now, wake) + CHECK_RUNOUT_TIMEOUT]_vars

\* the calls at which the value fed differs from the value stored, as (old, new)
RECURSIVE Transitions(_, _)
Transitions(stored, fed) ==
    IF fed = <<>>
    THEN <<>>
    ELSE (IF Some(Head(fed)) # stored
          THEN << <<stored, Some(Head(fed))>> >>
          ELSE <<>>) \o Transitions(Some(Head(fed)), Tail(fed))

C9_OneOpenMove ==
    \A i \in 2..Len(commanded_moves) : commanded_moves[i].ended

\* C9 witness: a second move was opened while the first was still open
C9_Witness ==
    /\ Len(commanded_moves) >= 2
    /\ ~commanded_moves[1].ended
    /\ commanded_moves[2].last_event # None

\* C10: after every poll tick the ledger holds at most 100 moves, newest first by
\* start time, and they are the most recent ones: with a move opened at every
\* tick 0 .. wake-1, entry i is the move opened at tick wake - i.
C10_LedgerBound ==
    /\ Len(commanded_moves) = Min(wake, LEDGER_CAPACITY)
    /\ \A i \in 1..Len(commanded_moves) : commanded_moves[i].eventtime = wake - i

\* C10 witness: 105 moves were inserted and the 100 most recent are left
C10_Witness ==
    /\ wake = 105
    /\ Len(commanded_moves) = 100
    /\ commanded_moves[1].eventtime = 104
    /\ commanded_moves[100].eventtime = 5

\* the fold of the k newest moves, newest first
RECURSIVE FoldPrefix(_, _)
FoldPrefix(moves, k) ==
    IF k = 1 THEN moves[1] ELSE CombineMoves(FoldPrefix(moves, k - 1), moves[k])

\* the fold of the k newest moves has a defined expected distance of at least w
Reaches(moves, k, w) ==
    /\ FoldPrefix(moves, k).last_event # None
    /\ FoldPrefix(moves, k).last_event[1].epos - FoldPrefix(moves, k).last_epos >= w

\* the moves have expected distances a, b, newest first, and nothing else is there
ExpectedAre(moves, a, b) ==
    /\ Len(moves) = 2
    /\ ExpectedDistance(moves[1]) = Some(a)
    /\ ExpectedDistance(moves[2]) = Some(b)

\* C11: combine(window) returns nothing for an empty ledger, otherwise the fold of
\* the shortest newest-first prefix whose aggregate expected distance is defined
\* and >= window, or of the whole ledger if no prefix reaches the window; a result
\* that does not cover the whole ledger has expected distance >= window; moves of
\* expected 1 and 2 with window 2 give an aggregate of expected distance >= 2.
C11_CombineWindow ==
    window # None =>
        /\ commanded_moves = <<>> => combined = None
        /\ commanded_moves # <<>> =>
              \E k \in 1..Len(commanded_moves) :
                  /\ combined = Some(FoldPrefix(commanded_moves, k))
                  /\ \A j \in 1..(k - 1) : ~Reaches(commanded_moves, j, window[1])
                  /\ k < Len(commanded_moves) =>
                        /\ Reaches(commanded_moves, k, window[1])
                        /\ ExpectedDistance(combined[1])[1] >= window[1]
        /\ (/\ window = Some(2)
            /\ \/ ExpectedAre(commanded_moves, 1, 2)
               \/ ExpectedAre(commanded_moves, 2, 1)) =>
              ExpectedDistance(combined[1])[1] >= 2

\* C11 witness: a three-move ledger was combined and the fold stopped at the two
\* newest moves, whose expected distances 1 and 1 reach the window 2 exactly
C11_Witness ==
    /\ window = Some(2)
    /\ Len(commanded_moves) = 3
    /\ ExpectedDistance(commanded_moves[1]) = Some(1)
    /\ ExpectedDistance(commanded_moves[2]) = Some(1)
    /\ combined = Some(FoldPrefix(commanded_moves, 2))
    /\ combined # Some(FoldPrefix(commanded_moves, 3))

\* the sum of the measured distances of the k newest moves
RECURSIVE SumMeasured(_, _)
SumMeasured(moves, k) ==
    IF k = 0 THEN 0 ELSE SumMeasured(moves, k - 1) + MeasuredDistance(moves[k])

\* the sum of the expected distances of the k newest moves, all of them defined
RECURSIVE SumExpected(_, _)
SumExpected(moves, k) ==
    IF k = 0 THEN 0 ELSE SumExpected(moves, k - 1) + ExpectedDistance(moves[k])[1]

\* each of the k newest moves has a sensor event
AllHaveEvents(moves, k) == \A i \in 1..k : moves[i].last_event # None

\* the sensor position changes between the last event of each of the k newest
\* moves and the first event of the next newer one, summed
RECURSIVE SumGaps(_, _)
SumGaps(moves, k) ==
    IF k <= 1
    THEN 0
    ELSE SumGaps(moves, k - 1)
           + (moves[k - 1].first_event[1].position - moves[k].last_event[1].position)

\* C12 as stated: for any contiguous newest-first prefix of the ledger, the
\* aggregate's measured distance equals the sum of the measured distances of the
\* combined moves, and its expected distance the sum of their expected distances.
C12_Summative ==
    \A k \in 1..Len(commanded_moves) :
        /\ MeasuredDistance(FoldPrefix(commanded_moves, k)) = SumMeasured(commanded_moves, k)
        /\ AllHaveEvents(commanded_moves, k) =>
              ExpectedDistance(FoldPrefix(commanded_moves, k))
                  = Some(SumExpected(commanded_moves, k))

\* C12 amended: for any contiguous newest-first prefix of the ledger in which
\* every move has a sensor event, the aggregate's expected distance equals the sum
\* of the moves' expected distances, and its measured distance equals the sum of
\* their measured distances plus the sensor position changes between each move's
\* last event and the next newer move's first event, that is the newest move's
\* last event position minus the oldest move's first event position.
C12_Telescopes ==
    \A k \in 1..Len(commanded_moves) :
        AllHaveEvents(commanded_moves, k) =>
            /\ ExpectedDistance(FoldPrefix(commanded_moves, k))
                  = Some(SumExpected(commanded_moves, k))
            /\ MeasuredDistance(FoldPrefix(commanded_moves, k))
                  = SumMeasured(commanded_moves, k) + SumGaps(commanded_moves, k)
            /\ MeasuredDistance(FoldPrefix(commanded_moves, k))
                  = commanded_moves[1].last_event[1].position
                      - commanded_moves[k].first_event[1].position

\* C12 witness: two moves with events, the older one with a measured distance,
\* and the sensor moved between the older move's last event and the newer's first
C12_Witness ==
    /\ Len(commanded_moves) = 2
    /\ AllHaveEvents(commanded_moves, 2)
    /\ MeasuredDistance(commanded_moves[2]) # 0
    /\ SumGaps(commanded_moves, 2) # 0
    /\ ExpectedDistance(commanded_moves[1]) # Some(0)

\* the rate n/d computed for a move of expected distance e and measured distance
\* m is 1 - m/e cut to [-1, 1]; ae is |e| and num is (e - m) with the sign of e
ClampedIs(n, d, e, m) ==
    LET ae == IF e > 0 THEN e ELSE 0 - e
        num == IF e > 0 THEN e - m ELSE m - e
    IN  IF num > ae THEN n = d
        ELSE IF num < 0 - ae THEN n = 0 - d
        ELSE n * ae = num * d

SameHighBits(a, b, bits) == a \div (2 ^ bits) = b \div (2 ^ bits)

\* fractions with positive denominators: a = b, a <= b
FracEq(a, b) == IF a[2] = b[2] THEN a[1] = b[1] ELSE a[1] * b[2] = b[1] * a[2]

FracLeq(a, b) == IF a[2] = b[2] THEN a[1] <= b[1] ELSE a[1] * b[2] <= b[1] * a[2]

\* C14: for every turn count and every ignore_bits in 0..11, two raw angle
\* readings that differ only in their lowest ignore_bits bits produce identical
\* absolute positions after update_raw(turns, angle).
C14_MaskingInvariant ==
    (/\ raw_reading[1] = previous_reading[1]
     /\ SameHighBits(raw_reading[2], previous_reading[2], ignore_bits)) =>
        FracEq(AbsoluteAngularPosition(rotation_position, ignore_bits),
               AbsoluteAngularPosition(previous_position, ignore_bits))

\* C15: for all (turns, angle) pairs, negative turn counts included, the absolute
\* position after update_raw(turns + 1, angle) is greater than or equal to the
\* absolute position after update_raw(turns, angle).
C15_WraparoundMonotonic ==
    (/\ raw_reading[1] = previous_reading[1] + 1
     /\ raw_reading[2] = previous_reading[2]) =>
        FracLeq(AbsoluteAngularPosition(previous_position, ignore_bits),
                AbsoluteAngularPosition(rotation_position, ignore_bits))

\* C15 witness: the turn count went from -2 to -1 with the angle held at 7 and
\* three ignored bits, and the position rose
C15_Witness ==
    /\ ignore_bits = 3
    /\ previous_reading = <<-2, 7>>
    /\ raw_reading = <<-1, 7>>
    /\ previous_position = -8183
    /\ rotation_position = -4088
    /\ AbsoluteAngularPosition(previous_position, ignore_bits) = <<-8184 * 360, 4095>>
    /\ AbsoluteAngularPosition(rotation_position, ignore_bits) = <<-4088 * 360, 4095>>

\* the unstuffed frame f passes the four acceptance tests for register reg
Accepted(f, reg) ==
    /\ Len(f) >= 5
    /\ f[Len(f)] = Crc8(SubSeq(f, 1, Len(f) - 1))
    /\ ~(f[1] # 5 /\ f[2] # 255)
    /\ f[3] = reg

\* C17: after unstuffing, _decode_read returns the payload (bytes 3 up to but
\* excluding the last) iff the frame has at least 5 bytes, its last byte equals
\* the CRC-8 of all preceding bytes, it is not the case that both byte 0 differs
\* from 0x05 and byte 1 differs from 0xff, and byte 2 equals the requested
\* register; in every other case it returns no data.
C17_FrameAcceptance ==
    decoded # None =>
        LET f == RemoveSerialBits(frame.data)
        IN  IF Accepted(f, frame.reg)
            THEN decoded[1] = Some(SubSeq(f, 4, Len(f) - 1))
            ELSE decoded[1] = None

\* C17 witness: a frame with a wrong frame marker, the right broadcast marker, a
\* valid CRC and the requested register was decoded to its four payload bytes
C17_Witness ==
    /\ frame.reg = REG_FULL_TURNS
    /\ RemoveSerialBits(frame.data) = <<0, 255, 35, 1, 0, 0, 0, Crc8(<<0, 255, 35, 1, 0, 0, 0>>)>>
    /\ decoded = Some(Some(<<1, 0, 0, 0>>))

\* the response passed length and CRC checks but fails the marker check or echoes
\* a register other than reg: the two rejections _decode_read logs
ProtocolMismatch(f, reg) ==
    /\ Len(f) >= 5
    /\ f[Len(f)] = Crc8(SubSeq(f, 1, Len(f) - 1))
    /\ (f[1] # 5 /\ f[2] # 255) \/ f[3] # reg

\* C16: in one poll tick each of the four fields (magnet state, filament presence,
\* full turns, angle) is read independently with at most 5 attempts, stopping at
\* that field's first valid response; all four fields are attempted even if an
\* earlier one failed (at most 20 reads per tick); the tick reports connected iff
\* all four fields obtained a value, and otherwise not connected.
C16_SerialRetryPolicy ==
    [][LET f == uart_pc
           valid == Accepted(uart_last'.bytes, FieldRegister[f])
       IN  /\ uart_last'.field = f
           /\ uart_attempts'[f] = uart_attempts[f] + 1
           /\ uart_attempts'[f] <= 5
           /\ \A g \in (1..4) \ {f} :
                 uart_attempts'[g] = uart_attempts[g] /\ uart_fields'[g] = uart_fields[g]
           /\ valid =>
                 /\ uart_pc' = f + 1
                 /\ uart_fields'[f] = Some(IF f <= 2 THEN uart_last'.bytes[4] ELSE -1)
           /\ (~valid /\ uart_attempts'[f] < 5) =>
                 uart_pc' = f /\ uart_fields'[f] = None
           /\ (~valid /\ uart_attempts'[f] = 5) =>
                 uart_pc' = f + 1 /\ uart_fields'[f] = None
           /\ uart_pc' < 5 => uart_connected' = None
           /\ uart_pc' = 5 =>
                 /\ \A g \in 1..4 : uart_attempts'[g] >= 1 /\ uart_attempts'[g] <= 5
                 /\ uart_attempts'[1] + uart_attempts'[2] + uart_attempts'[3]
                       + uart_attempts'[4] <= 20
                 /\ uart_connected' = Some(\A g \in 1..4 : uart_fields'[g] # None)]_vars

\* C16 witness: the first field failed five times, the others were still read
\* (the second got the value 0 at once, the third a value at its third attempt,
\* the fourth none), and the tick reported not connected
C16_Witness ==
    /\ uart_pc = 5
    /\ uart_attempts = <<5, 1, 3, 5>>
    /\ uart_fields = <<None, Some(0), Some(-1), None>>
    /\ uart_connected = Some(FALSE)

\* C18 as stated: when a response fails the marker check or echoes a register
\* other than the requested one, the read is treated as a failed read and no
\* further read attempt for that register is issued within the same
\* register-read call.
C18_MismatchNotRetried ==
    [][(/\ uart_pc \in 1..4
        /\ uart_last.field = uart_pc
        /\ ProtocolMismatch(uart_last.bytes, FieldRegister[uart_pc])) =>
          uart_attempts'[uart_pc] = uart_attempts[uart_pc]]_vars

\* C18 amended: when a response fails the marker check or echoes a register other
\* than the requested one, the read returns no data like any other failed read:
\* the same uart_read_reg call issues another read for that register unless this
\* was its fifth attempt, in which case the field is left without a value.
C18_MismatchRetried ==
    [][/\ ProtocolMismatch(uart_last'.bytes, FieldRegister[uart_pc]) =>
             /\ uart_fields'[uart_pc] = None
             /\ uart_pc' = IF uart_attempts'[uart_pc] < 5 THEN uart_pc ELSE uart_pc + 1
       /\ (/\ uart_last.field = uart_pc
           /\ ProtocolMismatch(uart_last.bytes, FieldRegister[uart_pc])) =>
             /\ uart_attempts[uart_pc] < 5
             /\ uart_attempts'[uart_pc] = uart_attempts[uart_pc] + 1
             /\ uart_last'.field = uart_pc]_vars

\* C18 witness: the fourth read of the first register was answered by a valid
\* frame echoing another register, and the register is still being read
C18_Witness ==
    /\ uart_pc = 1
    /\ uart_attempts[1] = 4
    /\ uart_last.field = 1
    /\ uart_last.bytes[3] = REG_FILAMENT_PRESENCE
    /\ ProtocolMismatch(uart_last.bytes, REG_MAGNET_STATE)
    /\ uart_fields[1] = None

\* C19: compensation is disabled initially, and after any sequence of
\* ENABLE_NONLINEAR_EXTRUSION commands enabled = true implies coefficients have
\* been configured; a command that asks to enable while no coefficients are
\* configured is rejected and leaves the enabled flag unchanged.
C19_EnableNeedsCoefficients ==
    /\ nle_response.outcome = "none" => (~nle_enabled /\ coefficients = None)
    /\ nle_enabled => coefficients # None
    /\ (/\ nle_response.outcome # "none"
        /\ nle_response.enable \in {"absent", "1"}
        /\ coefficients = None) =>
          /\ nle_response.outcome \notin {"enabled", "disabled"}
          /\ nle_enabled = nle_response.was_enabled
          /\ ~nle_enabled
    /\ nle_response.outcome = "!! no coefficients" =>
          nle_enabled = nle_response.was_enabled

\* C19 witness: a command that asked to enable without giving coefficients, none
\* being configured, was refused and left compensation disabled
C19_Witness ==
    /\ nle_response.coefficients = "absent"
    /\ nle_response.enable = "1"
    /\ nle_response.outcome = "!! no coefficients"
    /\ coefficients = None
    /\ ~nle_enabled

\* the events a move holds
EventsOf(move) ==
    <<move.first_event, move.last_event, move.first_motion_event,
      move.last_motion_event>>

\* C20: on a poll tick whose register read fails (serial: a field without a
\* value; block: exception, wrong length, or health byte 0xFF) the sensor is
\* marked disconnected and the rotation state, the position, the magnet state and
\* the filament-present value are unchanged, and no Sensor Event is appended to
\* any move (a move the tick opened has none).
C20_FailedReadLeavesState ==
    [][(PollStep /\ tick'.read # "ok") =>
          LET opened == Len(commanded_moves') - Len(commanded_moves)
          IN  /\ sensor_connected' = Some(FALSE)
              /\ UNCHANGED <<absolute_angular_position, position, magnet_state,
                             filament_present>>
              /\ opened \in {0, 1}
              /\ opened = 1 => EventsOf(commanded_moves'[1]) = <<None, None, None, None>>
              /\ \A i \in 1..Len(commanded_moves) :
                    EventsOf(commanded_moves'[i + opened]) = EventsOf(commanded_moves[i])]_vars

\* C20 witness: a block read returned the 0xFF health byte after earlier reads
\* had set a position, a detected magnet and filament present, and while a move
\* with events was open: the tick reported the loss and left all of that alone
C20_Witness ==
    /\ tick.op = "poll" /\ tick.read = "sentinel"
    /\ <<"sensor_connected", Some(TRUE), Some(FALSE)>> \in tick.fired
    /\ sensor_connected = Some(FALSE)
    /\ position = 8 /\ absolute_angular_position = 8
    /\ magnet_state = DETECTED
    /\ filament_present = Some(TRUE)
    /\ Len(commanded_moves) >= 1
    /\ ~commanded_moves[1].ended
    /\ commanded_moves[1].last_event # None
    /\ commanded_moves[1].last_event[1].eventtime < tick.t

\* what identifies a move: when and where it started and its target
IdentityOf(move) ==
    <<move.eventtime, move.pos, move.last_epos, move.epos, move.distance>>

\* C21: at a poll tick a new commanded move is opened iff the active extruder is
\* this sensor's extruder and the commanded extruder position differs from the
\* last recorded one; then the previous newest move is marked ended, the new open
\* move is at the head of the ledger and the last recorded position is the new
\* target; otherwise the ledger holds the same moves with the same ended flags
\* and the last recorded position is kept.
C21_MoveOpening ==
    [][PollStep =>
          LET active == poll_input'[1].active
              epos == poll_input'[1].epos
              opens == active /\ epos # last_epos
              n == Len(commanded_moves)
          IN  /\ opens =>
                    /\ Len(commanded_moves') = n + 1
                    /\ ~commanded_moves'[1].ended
                    /\ commanded_moves'[1].eventtime = tick'.t
                    /\ commanded_moves'[1].epos = epos
                    /\ last_epos' = epos
                    /\ n > 0 => commanded_moves'[2] = [commanded_moves[1] EXCEPT !.ended = TRUE]
                    /\ \A i \in 2..n : commanded_moves'[i + 1] = commanded_moves[i]
              /\ ~opens =>
                    /\ Len(commanded_moves') = n
                    /\ last_epos' = last_epos
                    /\ \A i \in 1..n :
                          /\ commanded_moves'[i].ended = commanded_moves[i].ended
                          /\ IdentityOf(commanded_moves'[i]) = IdentityOf(commanded_moves[i])
                    /\ \A i \in 2..n : commanded_moves'[i] = commanded_moves[i]]_vars

\* C21 witness: the last tick saw this sensor's extruder active with a new target
\* while a move with events was open: that move is ended and a new one heads the
\* ledger
C21_Witness ==
    /\ tick.op = "poll"
    /\ poll_input # None /\ poll_input[1].active
    /\ Len(commanded_moves) >= 2
    /\ commanded_moves[1].eventtime = tick.t
    /\ commanded_moves[1].epos = poll_input[1].epos
    /\ ~commanded_moves[1].ended
    /\ commanded_moves[2].ended
    /\ commanded_moves[2].last_event # None
    /\ last_epos = poll_input[1].epos

\* the Sensor Event a successful poll step builds
StepEvent(e) ==
    /\ e.eventtime = tick'.t
    /\ e.position = position'
    /\ e.distance = position' - position

\* `after` is `before` with exactly the event of this step added
EventAdded(before, after) ==
    /\ after.last_event # None /\ StepEvent(after.last_event[1])
    /\ after.first_event = (IF before.first_event = None THEN after.last_event
                                                          ELSE before.first_event)
    /\ after.first_motion_event =
          (IF position' # position /\ before.first_motion_event = None
           THEN after.last_event ELSE before.first_motion_event)
    /\ after.last_motion_event =
          (IF position' # position THEN after.last_event ELSE before.last_motion_event)

\* C22: a successful poll appends exactly one Sensor Event to the newest move iff
\* that move exists and is not ended (a move the tick opened starts with that
\* event), and changes the events of no other move; the events of a move that is
\* ended never change again while it is in the ledger, so after a print stop no
\* Sensor Event is recorded until a new move opens.
C22_EventsToOpenMove ==
    [][LET n == Len(commanded_moves)
           opened == Len(commanded_moves') - n
       IN  /\ (PollStep /\ tick'.read = "ok") =>
                 /\ opened \in {0, 1}
                 /\ (Len(commanded_moves') > 0 /\ ~commanded_moves'[1].ended) =>
                       EventAdded(IF opened = 1
                                  THEN CommandedMove(0, 0, 0, 0)
                                  ELSE commanded_moves[1],
                                  commanded_moves'[1])
                 /\ (Len(commanded_moves') > 0 /\ commanded_moves'[1].ended) =>
                       opened = 0 /\ EventsOf(commanded_moves'[1]) = EventsOf(commanded_moves[1])
                 /\ \A i \in 1..n :
                       i + opened > 1 =>
                          EventsOf(commanded_moves'[i + opened]) = EventsOf(commanded_moves[i])
           /\ opened >= 0 =>
                 \A i \in 1..n :
                    commanded_moves[i].ended =>
                       /\ commanded_moves'[i + opened].ended
                       /\ EventsOf(commanded_moves'[i + opened]) = EventsOf(commanded_moves[i])]_vars

\* C22 witness: after a print stop a poll read the sensor at a new position and
\* no move was opened: the position was updated and the ended move kept its events
C22_Witness ==
    /\ tick.op = "poll" /\ tick.read = "ok"
    /\ ~is_printing
    /\ Len(commanded_moves) = 1
    /\ commanded_moves[1].ended
    /\ commanded_moves[1].last_event # None
    /\ commanded_moves[1].last_event[1].eventtime < tick.t
    /\ commanded_moves[1].last_event[1].position # position

\* the callbacks of the trigger `name` among those this step made
FiredBy(name) == {f \in tick'.fired : f[1] = name}

\* the console responses of the trigger `name` in this step
ConsoleBy(name) == {c \in Console(tick'.fired) : c[1] = name}

PrintStartStep == tick'.op = "printing" /\ (tick' # tick \/ is_printing')

\* C24: every true-to-false transition of the under-extrusion trigger happens
\* while the timer start is defined, and a print-start event, also one that
\* arrives while under-extrusion is flagged, completes without error and leaves
\* runout false, under-extrusion false, the timer cleared, printing true and the
\* ledger empty.
C24_PrintStartCompletes ==
    [][/\ (underextruding /\ ~underextruding') => underextrusion_start_time # None
       /\ PrintStartStep =>
             /\ ~crashed'
             /\ ~runout' /\ ~underextruding'
             /\ underextrusion_start_time' = None
             /\ is_printing'
             /\ commanded_moves' = <<>>]_vars

\* C27: in every reachable state, after any sequence of poll ticks, print-start
\* and print-stop events, under-extrusion flag true implies runout flag true,
\* and under-extrusion flag true implies the timer start is defined.
C27_UnderextrusionImpliesRunout ==
    /\ underextruding => runout
    /\ underextruding => underextrusion_start_time # None

\* get_status in the current state
StatusNow ==
    GetStatus(status_evaluation_move, sensor_enabled, sensor_connected, magnet_state,
              filament_present, is_printing, underextruding, runout, position)

\* C25: get_status and QUERY_FILAMENT_SENSOR can be evaluated in every reachable
\* state, also before the first poll tick and when no read has ever succeeded,
\* and report boolean sensor_connected and filament_detected values, false while
\* the corresponding trigger is unset.
C25_StatusAvailable ==
    /\ StatusNow # None
    /\ StatusNow[1].sensor_connected = (sensor_connected = Some(TRUE))
    /\ StatusNow[1].filament_detected = (filament_present = Some(TRUE))
    /\ QueryFilamentSensor(sensor_connected, filament_present, runout, underextruding) # None

\* the tick of this step is one at which print issues are evaluated: printing,
\* alerting enabled, and its eventtime not before the end of the quiet period
GateOpenBefore ==
    is_printing /\ sensor_enabled /\ Max(now, wake) >= min_event_systime

\* C26: the alert callback is invoked only at poll ticks where the printer is
\* printing, alerting is enabled and the quiet period has elapsed; at every other
\* tick the unhealthy, runout and under-extrusion flags and the timer are
\* unchanged, while the register read and the position update still take place.
C26_GatedEvaluation ==
    [][PollStep =>
          /\ tick'.alerts > 0 => GateOpenBefore
          /\ ~GateOpenBefore =>
                /\ UNCHANGED <<unhealthy, runout, underextruding,
                               underextrusion_start_time>>
                /\ tick'.alerts = 0
                /\ sensor_connected' = Some(tick'.read = "ok")
                /\ tick'.read = "ok" =>
                      /\ magnet_state' \in MagnetValues
                      /\ filament_present' # None
                      /\ position' = NewPosition(absolute_angular_position')
                      /\ (Len(commanded_moves') > 0 /\ ~commanded_moves'[1].ended) =>
                            /\ commanded_moves'[1].last_event # None
                            /\ commanded_moves'[1].last_event[1].eventtime = tick'.t
                            /\ commanded_moves'[1].last_event[1].position = position']_vars

\* C26 witness: while printing with alerting switched off, a tick read the sensor
\* at a new position with the filament gone: the position and the filament state
\* were updated, and no runout was flagged and no alert invoked
C26_Witness ==
    /\ tick.op = "poll" /\ tick.read = "ok"
    /\ is_printing /\ ~sensor_enabled
    /\ ~tick.gate
    /\ <<"filament_present", Some(TRUE), Some(FALSE)>> \in tick.fired
    /\ filament_present = Some(FALSE)
    /\ position = 0 /\ Len(commanded_moves) > 0
    /\ commanded_moves[1].last_event # None
    /\ commanded_moves[1].last_event[1].eventtime = tick.t
    /\ commanded_moves[1].last_event[1].distance # 0
    /\ ~runout /\ ~unhealthy
    /\ tick.alerts = 0

\* C28: after a print-start event, if the sensor is unhealthy at the first
\* evaluated poll tick of the new print, the alert callback is invoked at that
\* tick, whether or not an unhealthy alert was raised during a previous print
\* (stated for the evaluated tick that directly follows the print-start event).
C28_PrintStartRearmsHealth ==
    [][(EvaluatedStep /\ tick.op = "printing" /\ ~HealthyAfter) =>
          tick'.alerts = 1]_vars

\* (turns, angle) pair a comes before pair b in the lexicographic order
LexLess(a, b) == a[1] < b[1] \/ (a[1] = b[1] /\ a[2] < b[2])

\* C29: with ignore_bits = 0 and raw angles in 0..2^12-1, the cumulative raw
\* position set by update_raw is strictly increasing in the lexicographic order
\* of (turns, angle): distinct readings never map to the same position, and
\* stepping from the last angle of one turn to angle 0 of the next advances the
\* position.
C29_TurnBoundaryContinuity ==
    (ignore_bits = 0 /\ LexLess(previous_reading, raw_reading)) =>
        previous_position < rotation_position

====
